---- MODULE Spec2Model ----
(***************************************************************************)
(* Model of src/pubmed_compare.py: the generator of Boolean phrase         *)
(* combinations, the query loop that fills the result store, and the two   *)
(* reporters (term counts, pairwise overlap).                              *)
(*                                                                         *)
(* Text is modelled as a sequence of one-character strings, so that        *)
(* quoting, joining and upper-casing are computed character by character.  *)
(* PMIDs are opaque identifiers, modelled as small naturals.               *)
(* The CSV sink and the console are external: a report is modelled as the  *)
(* sequence of rows handed to csv.writer, and writing always succeeds.     *)
(***************************************************************************)
EXTENDS Integers, Sequences, FiniteSets

VARIABLES PHRASES, MAX_COMBO_SIZE, OPERATOR, pc, all_combos, i, results,
          log, counts_csv, overlap_csv

vars == <<PHRASES, MAX_COMBO_SIZE, OPERATOR, pc, all_combos, i, results,
          log, counts_csv, overlap_csv>>

(* ------------------------------ bounds --------------------------------- *)

\* longest phrase list given to the generator on its own
MaxPhrases == 3
\* largest max_combination_size given to the generator on its own
MaxK == 4
\* largest max_combination_size of a full run
RunK == 2
\* most PMIDs a response of the query loop holds
RunIds == 1
\* PMIDs of the two result sets compared by the overlap reporter: 1..MaxId
MaxId == 4

(* ------------------------------- text ---------------------------------- *)

Quote == "\""
AND == <<"A", "N", "D">>
OR == <<"O", "R">>

pa == <<"a">>
pb == <<"b">>
\* a phrase that embeds the quote/operator format
px == <<"a", Quote, " ", "A", "N", "D", " ", Quote, "b">>
\* a quote-free phrase that embeds the operator
py == <<"a", " ", "A", "N", "D", " ", "b">>

PhrasePool == {pa, pb, px, py}

Operators == {AND, OR, <<"a", "n", "d">>, <<"O", "r">>, <<"x", "o", "r">>,
              <<"A", "N">>, <<>>}

RunOperators == {<<"a", "n", "d">>, <<"x", "o", "r">>}

SeqsUpTo(S, n) == UNION {[1..m -> S] : m \in 0..n}

PhraseLists == SeqsUpTo(PhrasePool, MaxPhrases)

\* phrase lists of the full run: none, one, two distinct, a repeated phrase,
\* three distinct quote-free phrases, three distinct phrases one of which
\* embeds the quote/operator format
RunPhraseLists == {<<>>, <<pa>>, <<pa, pb>>, <<pa, pa>>, <<pb, pa>>,
                   <<pa, pb, py>>, <<pa, pb, px>>}

Range(s) == {s[k] : k \in 1..Len(s)}

Max(S) == CHOOSE x \in S : \A y \in S : y <= x

upperChar(c) ==
  CASE c = "a" -> "A" [] c = "n" -> "N" [] c = "d" -> "D"
    [] c = "o" -> "O" [] c = "r" -> "R" [] c = "x" -> "X"
    [] c = "b" -> "B" [] OTHER -> c

\* str.upper()
upper(s) == [k \in 1..Len(s) |-> upperChar(s[k])]

RECURSIVE join(_, _)
\* sep.join(parts)
join(sep, parts) ==
  IF Len(parts) = 0 THEN <<>>
  ELSE IF Len(parts) = 1 THEN parts[1]
  ELSE parts[1] \o sep \o join(sep, Tail(parts))

\* the phrase left bare
unquoted(p) == p

\* f'"{p}"'
quoted(p) == <<Quote>> \o p \o <<Quote>>

(* ------------------------ itertools.combinations ----------------------- *)

RECURSIVE indicesFrom(_, _, _)
\* the index tuples from `indices` on, in the order combinations() yields
\* them: advance the rightmost index that is not at its maximum, reset the
\* ones after it
indicesFrom(indices, n, r) ==
  LET movable == {j \in 1..r : indices[j] # j + n - r}
  IN IF movable = {} THEN <<indices>>
     ELSE LET m == Max(movable)
              next == [j \in 1..r |->
                         IF j < m THEN indices[j] ELSE indices[m] + 1 + (j - m)]
          IN <<indices>> \o indicesFrom(next, n, r)

combinationIndices(n, r) ==
  IF r > n THEN <<>> ELSE indicesFrom([j \in 1..r |-> j], n, r)

\* combinations(pool, r): r-length tuples of pool, by index position
combinations(pool, r) ==
  LET ix == combinationIndices(Len(pool), r)
  IN [k \in 1..Len(ix) |-> [j \in 1..r |-> pool[ix[k][j]]]]

(* --------------------- generate_phrase_combinations -------------------- *)

\* the assert without the upper() of line 84
operatorAcceptedAsWritten(operator) == operator \in {AND, OR}

\* the assert of line 85
operatorAccepted(operator) == upper(operator) \in {AND, OR}

\* line 89
combinedQuery(combo, operator) ==
  join(<<" ">> \o upper(operator) \o <<" ">>,
       [j \in 1..Len(combo) |-> quoted(combo[j])])

\* lines 88-90 for one r
combosOfSize(phrases, r, operator) ==
  LET cs == combinations(phrases, r)
  IN [k \in 1..Len(cs) |->
        [query |-> combinedQuery(cs[k], operator), components |-> cs[k]]]

RECURSIVE combosFromSizeDown(_, _, _, _)
\* the sizes taken largest first
combosFromSizeDown(phrases, r, max_combination_size, operator) ==
  IF r > max_combination_size THEN <<>>
  ELSE combosFromSizeDown(phrases, r + 1, max_combination_size, operator)
       \o combosOfSize(phrases, r, operator)

RECURSIVE combosFromSize(_, _, _, _)
\* the loop of line 87 from r on: range(r, max_combination_size + 1)
combosFromSize(phrases, r, max_combination_size, operator) ==
  IF r > max_combination_size THEN <<>>
  ELSE combosOfSize(phrases, r, operator)
       \o combosFromSize(phrases, r + 1, max_combination_size, operator)

\* range(1, max_combination_size) in place of line 87's range
generateBelowMax(phrases, max_combination_size, operator) ==
  combosFromSize(phrases, 1, max_combination_size - 1, operator)

generate_phrase_combinations(phrases, max_combination_size, operator) ==
  combosFromSize(phrases, 1, max_combination_size, operator)

(* ------------------------------ fetch_pmids ---------------------------- *)

FailureKinds == {"network_error", "http_status", "malformed_body",
                 "missing_field"}

\* the idlist of a response: the first m PMIDs, or one PMID listed m times
IdLists ==
  {[k \in 1..m |-> k] : m \in 0..RunIds}
  \cup {[k \in 1..m |-> 1] : m \in 1..(RunIds + 1)}

\* what requests.get / raise_for_status / response.json() give for one call
Responses ==
  {[kind |-> "ok", idlist |-> l] : l \in IdLists}
  \cup {[kind |-> f, idlist |-> <<>>] : f \in FailureKinds}

\* lines 110-117: the set of the idlist, or the empty set on any exception
fetch_pmids(response) ==
  IF response.kind = "ok" THEN Range(response.idlist) ELSE {}

(* ------------------------------ result store --------------------------- *)

\* every entry made to hold the one set object just fetched
dictSetItemShared(d, term, components, pmids) ==
  LET entry == [term |-> term, components |-> components, pmids |-> pmids]
      at == {k \in 1..Len(d) : d[k].term = term}
      shared == [k \in 1..Len(d) |-> [d[k] EXCEPT !.pmids = pmids]]
  IN IF at = {} THEN Append(shared, entry)
     ELSE [k \in 1..Len(d) |-> IF k \in at THEN entry ELSE shared[k]]

\* results[search_term] = {...} on an insertion-ordered dict: an existing
\* key keeps its position and has its value replaced, a new key is appended
dictSetItem(d, term, components, pmids) ==
  LET entry == [term |-> term, components |-> components, pmids |-> pmids]
      at == {k \in 1..Len(d) : d[k].term = term}
  IN IF at = {} THEN Append(d, entry)
     ELSE [k \in 1..Len(d) |-> IF k \in at THEN entry ELSE d[k]]

(* ------------------------------- reporters ----------------------------- *)

\* the row counting the component phrases in place of the PMIDs
saveTermCountsOfComponents(results_dict) ==
  [k \in 1..Len(results_dict) |->
     [term |-> results_dict[k].term,
      components |-> join(<<";", " ">>, results_dict[k].components),
      count |-> Len(results_dict[k].components)]]

\* lines 127-128: one row per entry, in the dict's order
save_term_counts(results_dict) ==
  [k \in 1..Len(results_dict) |->
     [term |-> results_dict[k].term,
      components |-> join(<<";", " ">>, results_dict[k].components),
      count |-> Cardinality(results_dict[k].pmids)]]

RECURSIVE digits(_)
\* decimal digits of a natural
digits(n) ==
  LET d == <<"0", "1", "2", "3", "4", "5", "6", "7", "8", "9">>[(n % 10) + 1]
  IN IF n < 10 THEN <<d>> ELSE digits(n \div 10) \o <<d>>

\* n/d rounded to the nearest integer, an exact half going to the even one
roundHalfEven(n, d) ==
  LET q == n \div d
      r == n % d
  IN IF 2 * r < d THEN q
     ELSE IF 2 * r > d THEN q + 1
     ELSE IF q % 2 = 0 THEN q ELSE q + 1

\* line 143 in tenths of a percent as f"{jaccard:.1f}" rounds it.  For the
\* set sizes modelled, 100*shared/union is never within a float's error of
\* a rounding boundary, so rounding the exact quotient is what Python prints.
jaccardTenths(shared, union) ==
  IF union # 0 THEN roundHalfEven(1000 * shared, union) ELSE 0

\* f"{jaccard:.1f}"
format1f(tenths) == digits(tenths \div 10) \o <<".">> \o digits(tenths % 10)

\* the row with the first set standing for the union
overlapRowOverFirst(t1, t2, s1, s2) ==
  LET shared == s1 \cap s2
      union == s1
  IN [term1 |-> t1, term2 |-> t2,
      shared |-> Cardinality(shared), union |-> Cardinality(union),
      jaccard |-> format1f(jaccardTenths(Cardinality(shared),
                                         Cardinality(union)))]

\* lines 140-144
overlapRow(t1, t2, s1, s2) ==
  LET shared == s1 \cap s2
      union == s1 \cup s2
  IN [term1 |-> t1, term2 |-> t2,
      shared |-> Cardinality(shared), union |-> Cardinality(union),
      jaccard |-> format1f(jaccardTenths(Cardinality(shared),
                                         Cardinality(union)))]

\* product(terms, terms): every ordered pair of positions
termProduct(n) ==
  LET at(k) == <<((k - 1) \div n) + 1, ((k - 1) % n) + 1>>
  IN [k \in 1..(n * n) |-> at(k)]

\* line 139: combinations(terms, 2) over positions of the key list
termPairs(n) == combinationIndices(n, 2)

\* lines 135-144
save_overlap_matrix(results_dict) ==
  LET pairs == termPairs(Len(results_dict))
  IN [k \in 1..Len(pairs) |->
        LET e1 == results_dict[pairs[k][1]]
            e2 == results_dict[pairs[k][2]]
        IN overlapRow(e1.term, e2.term, e1.pmids, e2.pmids)]

(* ------------------------------ the run -------------------------------- *)

NotWritten == [written |-> FALSE, rows |-> <<>>]
Written(rows) == [written |-> TRUE, rows |-> rows]

NoTerm == <<>>
Event(type, term, ok, pmids) ==
  [type |-> type, term |-> term, ok |-> ok, pmids |-> pmids]

Start(phrases, k, operator) ==
  /\ PHRASES = phrases
  /\ MAX_COMBO_SIZE = k
  /\ OPERATOR = operator
  /\ pc = "generate"
  /\ all_combos = <<>>
  /\ i = 1
  /\ results = <<>>
  /\ log = <<>>
  /\ counts_csv = NotWritten
  /\ overlap_csv = NotWritten

\* configurations of the full run: every phrase list above under one accepted
\* and one rejected operator, and two phrases under every operator spelling
RunConfigs ==
  {[phrases |-> p, k |-> k, operator |-> o] :
     p \in RunPhraseLists, k \in 0..RunK, o \in RunOperators}
  \cup {[phrases |-> <<pa, pb>>, k |-> k, operator |-> o] :
          k \in 0..RunK, o \in Operators}

Init == \E c \in RunConfigs : Start(c.phrases, c.k, c.operator)

AfterLoop(n) == IF n > Len(all_combos) THEN "save_counts" ELSE "fetch"

\* line 151, the operator accepted
Generate ==
  /\ pc = "generate"
  /\ operatorAccepted(OPERATOR)
  /\ all_combos' =
       generate_phrase_combinations(PHRASES, MAX_COMBO_SIZE, OPERATOR)
  /\ pc' = IF Len(all_combos') = 0 THEN "save_counts" ELSE "fetch"
  /\ UNCHANGED <<PHRASES, MAX_COMBO_SIZE, OPERATOR, i, results, log,
                 counts_csv, overlap_csv>>

\* line 151, the assert of line 85 failing: the AssertionError is not caught
GenerateFails ==
  /\ pc = "generate"
  /\ ~operatorAccepted(OPERATOR)
  /\ pc' = "aborted"
  /\ UNCHANGED <<PHRASES, MAX_COMBO_SIZE, OPERATOR, all_combos, i, results,
                 log, counts_csv, overlap_csv>>

\* lines 156-157 for the i-th pair and one response of the service
Query(response) ==
  LET pmids == fetch_pmids(response)
      combo == all_combos[i]
  IN /\ results' = dictSetItem(results, combo.query, combo.components, pmids)
     /\ log' = Append(log, Event("call", combo.query,
                                 response.kind = "ok", pmids))
     /\ pc' = "sleep"
     /\ UNCHANGED <<PHRASES, MAX_COMBO_SIZE, OPERATOR, all_combos, i,
                    counts_csv, overlap_csv>>

FetchOk ==
  /\ pc = "fetch"
  /\ \E response \in Responses : response.kind = "ok" /\ Query(response)

\* the exception of a failed request leaving fetch_pmids
FetchRaises ==
  /\ pc = "fetch"
  /\ log' = Append(log, Event("call", all_combos[i].query, FALSE, {}))
  /\ pc' = "aborted"
  /\ UNCHANGED <<PHRASES, MAX_COMBO_SIZE, OPERATOR, all_combos, i, results,
                 counts_csv, overlap_csv>>

FetchFails ==
  /\ pc = "fetch"
  /\ \E response \in Responses : response.kind # "ok" /\ Query(response)

\* the loop going on without the delay
SleepSkipped ==
  /\ pc = "sleep"
  /\ i' = i + 1
  /\ pc' = AfterLoop(i + 1)
  /\ UNCHANGED <<PHRASES, MAX_COMBO_SIZE, OPERATOR, all_combos, results, log,
                 counts_csv, overlap_csv>>

\* line 159, then the next iteration or the end of the loop
Sleep ==
  /\ pc = "sleep"
  /\ log' = Append(log, Event("sleep", NoTerm, TRUE, {}))
  /\ i' = i + 1
  /\ pc' = AfterLoop(i + 1)
  /\ UNCHANGED <<PHRASES, MAX_COMBO_SIZE, OPERATOR, all_combos, results,
                 counts_csv, overlap_csv>>

\* line 162
SaveCounts ==
  /\ pc = "save_counts"
  /\ counts_csv' = Written(save_term_counts(results))
  /\ log' = Append(log, Event("counts", NoTerm, TRUE, {}))
  /\ pc' = "save_overlap"
  /\ UNCHANGED <<PHRASES, MAX_COMBO_SIZE, OPERATOR, all_combos, i, results,
                 overlap_csv>>

\* line 165
SaveOverlap ==
  /\ pc = "save_overlap"
  /\ overlap_csv' = Written(save_overlap_matrix(results))
  /\ log' = Append(log, Event("overlap", NoTerm, TRUE, {}))
  /\ pc' = "done"
  /\ UNCHANGED <<PHRASES, MAX_COMBO_SIZE, OPERATOR, all_combos, i, results,
                 counts_csv>>

Next ==
  \/ Generate
  \/ GenerateFails
  \/ FetchOk
  \/ FetchFails
  \/ Sleep
  \/ SaveCounts
  \/ SaveOverlap

Spec == Init /\ [][Next]_vars

(* ------------------- the generator on its own ------------------------- *)

InitGen ==
  \E phrases \in PhraseLists, k \in 0..MaxK, operator \in Operators :
    Start(phrases, k, operator)

NextGen ==
  \/ Generate
  \/ GenerateFails

SpecGen == InitGen /\ [][NextGen]_vars

(* ---------------- the overlap reporter on its own --------------------- *)

\* the state before line 165 of a run over two phrases whose queries
\* returned s1 and s2
BeforeOverlap(s1, s2) ==
  LET combos == generate_phrase_combinations(<<pa, pb>>, 1, AND)
      store == dictSetItem(
                 dictSetItem(<<>>, combos[1].query, combos[1].components, s1),
                 combos[2].query, combos[2].components, s2)
  IN /\ PHRASES = <<pa, pb>>
     /\ MAX_COMBO_SIZE = 1
     /\ OPERATOR = AND
     /\ pc = "save_overlap"
     /\ all_combos = combos
     /\ i = 3
     /\ results = store
     /\ log = <<Event("call", combos[1].query, TRUE, s1),
                Event("sleep", NoTerm, TRUE, {}),
                Event("call", combos[2].query, TRUE, s2),
                Event("sleep", NoTerm, TRUE, {}),
                Event("counts", NoTerm, TRUE, {})>>
     /\ counts_csv = Written(save_term_counts(store))
     /\ overlap_csv = NotWritten

InitOverlap == \E s1 \in SUBSET (1..MaxId), s2 \in SUBSET (1..MaxId) :
                 BeforeOverlap(s1, s2)

NextOverlap == SaveOverlap

SpecOverlap == InitOverlap /\ [][NextOverlap]_vars

(* ======================= properties of the generator =================== *)

Min(S) == CHOOSE x \in S : \A y \in S : x <= y

\* generation has returned
Generated == pc \notin {"generate", "aborted"}

RECURSIVE Choose(_, _)
\* the binomial coefficient C(n, r)
Choose(n, r) ==
  IF r = 0 THEN 1
  ELSE IF r > n THEN 0
  ELSE Choose(n - 1, r - 1) + Choose(n - 1, r)

RECURSIVE SumChoose(_, _)
\* C(n, 1) + ... + C(n, m)
SumChoose(n, m) == IF m <= 0 THEN 0 ELSE SumChoose(n, m - 1) + Choose(n, m)

\* the strictly increasing r-tuples of positions 1..n
IncreasingTuples(n, r) ==
  {t \in [1..r -> 1..n] : \A j \in 1..(r - 1) : t[j] < t[j + 1]}

\* the spellings of a word in upper and lower case
lowerChar(c) ==
  CASE c = "A" -> "a" [] c = "N" -> "n" [] c = "D" -> "d"
    [] c = "O" -> "o" [] c = "R" -> "r" [] OTHER -> c

Spellings(word) ==
  {s \in [1..Len(word) -> {"A", "N", "D", "O", "R", "a", "n", "d", "o", "r"}] :
     \A k \in 1..Len(word) : s[k] \in {word[k], lowerChar(word[k])}}

AcceptedOperators == Spellings(AND) \cup Spellings(OR)

\* C1: the generator returns exactly C(|P|,1) + ... + C(|P|,min(K,|P|))
\* pairs, each component tuple holding between 1 and K phrases taken from P
\* at strictly increasing positions; K > |P| is no error and adds nothing:
\* the generator fails only on an operator that spells neither AND nor OR.
C1_CountAndShape ==
  LET n == Len(PHRASES)
      K == MAX_COMBO_SIZE
  IN /\ Generated =>
          /\ Len(all_combos) = SumChoose(n, IF K < n THEN K ELSE n)
          /\ \A k \in 1..Len(all_combos) :
                LET c == all_combos[k].components
                IN /\ Len(c) \in 1..K
                   /\ \E t \in IncreasingTuples(n, Len(c)) :
                         c = [j \in 1..Len(c) |-> PHRASES[t[j]]]
     /\ pc = "aborted" => OPERATOR \notin AcceptedOperators

\* a size above the length of a three-phrase list was asked for and the
\* seven combinations were returned
C1_Witness ==
  /\ Generated
  /\ Len(PHRASES) = 3
  /\ MAX_COMBO_SIZE > Len(PHRASES)
  /\ Len(all_combos) = 7

LexLess(u, t) ==
  \E j \in 1..Len(u) : u[j] < t[j] /\ \A m \in 1..(j - 1) : u[m] = t[m]

\* u is generated before t: a smaller size, or the same size and smaller
\* positions lexicographically
Before(u, t) == Len(u) < Len(t) \/ (Len(u) = Len(t) /\ LexLess(u, t))

\* C3: the pairs come in generation order: size 1 first, then size 2, ...;
\* within a size in lexicographic order of the positions in the input list,
\* whatever the phrases; [a, b], K = 2, AND gives "a", "b", "a" AND "b".
C3_GenerationOrder ==
  LET n == Len(PHRASES)
      K == MAX_COMBO_SIZE
      all == UNION {IncreasingTuples(n, r) : r \in 1..(IF K < n THEN K ELSE n)}
      rank(t) == Cardinality({u \in all : Before(u, t)}) + 1
  IN Generated =>
       /\ Len(all_combos) = Cardinality(all)
       /\ \A t \in all :
             all_combos[rank(t)].components = [j \in 1..Len(t) |-> PHRASES[t[j]]]
       /\ (PHRASES = <<pa, pb>> /\ K = 2 /\ OPERATOR = AND) =>
             [k \in 1..3 |-> all_combos[k].query] =
               << <<Quote, "a", Quote>>,
                  <<Quote, "b", Quote>>,
                  <<Quote, "a", Quote, " ", "A", "N", "D", " ",
                    Quote, "b", Quote>> >>

\* three phrases not in value order, with a repeated one, combined up to
\* size three
C3_Witness ==
  /\ Generated
  /\ PHRASES = <<pb, pa, pb>>
  /\ MAX_COMBO_SIZE = 3
  /\ Len(all_combos) = 7

(* ========================== query strings ============================== *)

BadPhrase == <<"?">>

RECURSIVE phrasesFrom(_, _, _)
\* the quote/operator format reversed from position pos of q: a quote, the
\* text up to the next quote, then either the end or the separator and
\* another quoted phrase
phrasesFrom(q, pos, sep) ==
  LET closing == {e \in (pos + 1)..Len(q) : q[e] = Quote}
  IN IF pos > Len(q) \/ q[pos] # Quote \/ closing = {} THEN <<BadPhrase>>
     ELSE LET e == Min(closing)
              phrase == SubSeq(q, pos + 1, e - 1)
          IN IF e = Len(q) THEN <<phrase>>
             ELSE IF /\ e + Len(sep) < Len(q)
                     /\ SubSeq(q, e + 1, e + Len(sep)) = sep
                  THEN <<phrase>> \o phrasesFrom(q, e + Len(sep) + 1, sep)
                  ELSE <<BadPhrase>>

\* the operator word an accepted spelling stands for
WordOf(operator) == IF operator \in Spellings(AND) THEN AND ELSE OR

RecoveredPhrases(q) == phrasesFrom(q, 1, <<" ">> \o WordOf(OPERATOR) \o <<" ">>)

DistinctPhrases ==
  \A j, k \in 1..Len(PHRASES) : j # k => PHRASES[j] # PHRASES[k]

NonEmptyPhrases == \A j \in 1..Len(PHRASES) : Len(PHRASES[j]) > 0

QuoteFreePhrases ==
  \A j \in 1..Len(PHRASES) : \A m \in 1..Len(PHRASES[j]) : PHRASES[j][m] # Quote

DistinctQueries ==
  \A j, k \in 1..Len(all_combos) :
    j # k => all_combos[j].query # all_combos[k].query

LoopDone == pc \in {"save_counts", "save_overlap", "done"}

OneQueryPerCombination ==
  /\ DistinctQueries
  /\ \A k \in 1..Len(all_combos) :
        RecoveredPhrases(all_combos[k].query) = all_combos[k].components
  /\ LoopDone => Len(results) = Len(all_combos)

\* C2 as stated: for pairwise distinct non-empty phrases the query strings
\* are pairwise different, the components are recovered from each query
\* string, and the store ends the query phase with one entry per combination.
C2_AsStated ==
  (Generated /\ DistinctPhrases /\ NonEmptyPhrases) => OneQueryPerCombination

\* C2 (amended): the same, for pairwise distinct non-empty phrases that hold
\* no double-quote character.
C2_QuoteFreeQueriesDistinct ==
  (Generated /\ DistinctPhrases /\ NonEmptyPhrases /\ QuoteFreePhrases)
    => OneQueryPerCombination

\* a run over three distinct quote-free phrases, one of them holding the
\* operator between spaces, has finished its six queries
C2_Witness ==
  /\ pc = "done"
  /\ PHRASES = <<pa, pb, py>>
  /\ Len(all_combos) = 6
  /\ Len(results) = 6

(* ============================ the operator ============================= *)

RECURSIVE QuotedChain(_, _, _)
\* "c1" W "c2" W ... "cn" written out from the left
QuotedChain(c, n, word) ==
  IF n = 1 THEN <<Quote>> \o c[1] \o <<Quote>>
  ELSE QuotedChain(c, n - 1, word) \o <<" ">> \o word \o <<" ">>
       \o <<Quote>> \o c[n] \o <<Quote>>

\* C4: the operator is accepted iff its upper-case form is AND or OR, and an
\* accepted operator stands in upper case in every multi-phrase query; on
\* any other operator the generator fails and the run aborts with no call
\* issued, no store entry inserted and no report written, and goes no
\* further.
C4_OperatorGate ==
  /\ Generated =>
       /\ OPERATOR \in AcceptedOperators
       /\ \A k \in 1..Len(all_combos) :
             LET c == all_combos[k].components
             IN Len(c) >= 2 =>
                  all_combos[k].query = QuotedChain(c, Len(c), WordOf(OPERATOR))
  /\ pc = "aborted" =>
       /\ OPERATOR \notin AcceptedOperators
       /\ all_combos = <<>>
       /\ log = <<>>
       /\ results = <<>>
       /\ ~counts_csv.written
       /\ ~overlap_csv.written
       /\ ~ENABLED Next
  /\ pc = "generate" => (ENABLED Generate <=> OPERATOR \in AcceptedOperators)

\* a run given a word that is neither AND nor OR has aborted
C4_Witness ==
  /\ pc = "aborted"
  /\ OPERATOR = <<"x", "o", "r">>
  /\ Len(PHRASES) >= 2

(* ============================ the query loop =========================== *)

IsCall(e) == e.type = "call"

\* the calls of fetch_pmids so far, in order
Calls == SelectSeq(log, IsCall)

\* the store's entry for a search term
HasEntry(term) == \E e \in 1..Len(results) : results[e].term = term
EntryOf(term) == results[CHOOSE e \in 1..Len(results) : results[e].term = term]

\* C5: a failing query never aborts the run: fetch_pmids returns the empty
\* set on a failure and does not raise, the loop goes on through every
\* remaining query whatever the pattern of failures, every generated query
\* has a store entry holding what its (last) call returned, so an empty one
\* for a failed call, and both reports are produced.
C5_FailuresContained ==
  /\ \A k \in 1..Len(Calls) : ~Calls[k].ok => Calls[k].pmids = {}
  /\ pc = "aborted" => Calls = <<>>
  /\ pc = "fetch" => (i \in 1..Len(all_combos) /\ ENABLED (FetchOk \/ FetchFails))
  /\ pc = "sleep" => ENABLED Sleep
  /\ pc = "save_counts" => ENABLED SaveCounts
  /\ pc = "sleep" =>
       /\ HasEntry(all_combos[i].query)
       /\ EntryOf(all_combos[i].query).pmids = Calls[Len(Calls)].pmids
  /\ LoopDone =>
       /\ Len(Calls) = Len(all_combos)
       /\ \A k \in 1..Len(all_combos) :
             LET q == all_combos[k].query
                 last == Max({m \in 1..Len(Calls) : Calls[m].term = q})
             IN /\ HasEntry(q)
                /\ EntryOf(q).pmids = Calls[last].pmids
                /\ (DistinctQueries /\ ~Calls[k].ok) => EntryOf(q).pmids = {}
  /\ pc = "done" =>
       /\ counts_csv.written
       /\ overlap_csv.written
       /\ Len(counts_csv.rows) = Len(results)

\* a finished run in which a query failed and a later one returned PMIDs
C5_Witness ==
  /\ pc = "done"
  /\ \E j, k \in 1..Len(Calls) :
        j < k /\ ~Calls[j].ok /\ Calls[k].ok /\ Calls[k].pmids # {}

\* C9: fetch_pmids is called exactly once per generated pair, in generation
\* order, with no second attempt after a failure; each call is followed by
\* one delay before the next call; no report is started before the last
\* call and its insertion are over, and counts are written before overlap.
C9_CallOrder ==
  LET n == Len(all_combos)
  IN /\ Len(log) <= 2 * n + 2
     /\ \A k \in 1..Len(log) :
           IF k <= 2 * n
           THEN IF k % 2 = 1
                THEN /\ log[k].type = "call"
                     /\ log[k].term = all_combos[(k + 1) \div 2].query
                ELSE log[k].type = "sleep"
           ELSE log[k].type = (IF k = 2 * n + 1 THEN "counts" ELSE "overlap")
     /\ pc = "fetch" => Len(log) = 2 * (i - 1)
     /\ pc = "sleep" => Len(log) = 2 * i - 1
     /\ counts_csv.written <=> (Generated /\ Len(log) >= 2 * n + 1)
     /\ overlap_csv.written <=> (Generated /\ Len(log) = 2 * n + 2)
     /\ counts_csv.written =>
           \A k \in 1..n : HasEntry(all_combos[k].query)

\* a finished run of six queries, one of which failed
C9_Witness ==
  /\ pc = "done"
  /\ Len(all_combos) = 6
  /\ Len(Calls) = 6
  /\ \E k \in 1..Len(Calls) : ~Calls[k].ok

(* ============================== the store ============================== *)

\* every entry of the store is the same, at the same place, after the step,
\* and the reporters leave the whole store as it is
EntriesKept ==
  /\ \A k \in 1..Len(results) : k <= Len(results') /\ results'[k] = results[k]
  /\ LoopDone => results' = results

\* C10 as stated: an inserted entry keeps its components and its result set
\* in every later state, under later insertions and under both reporters.
C10_AsStated == [][EntriesKept]_vars

\* C10 (amended): the same, in runs whose generated query strings are
\* pairwise different.
C10_EntriesKeptWhenQueriesDistinct == [][DistinctQueries => EntriesKept]_vars

\* a finished run whose pairwise different queries left entries with
\* different result sets
C10_Witness ==
  /\ pc = "done"
  /\ DistinctQueries
  /\ Len(results) >= 3
  /\ results[1].pmids # results[2].pmids

(* ============================= the reports ============================= *)

RECURSIVE SemicolonChain(_, _)
\* c1; c2; ...; cn written out from the left
SemicolonChain(c, n) ==
  IF n = 1 THEN c[1] ELSE SemicolonChain(c, n - 1) \o <<";", " ">> \o c[n]

RowsFollowGenerator ==
  LET rows == counts_csv.rows
  IN /\ Len(rows) = Len(all_combos)
     /\ \A k \in 1..Len(all_combos) :
           LET c == all_combos[k].components
           IN /\ rows[k].term = all_combos[k].query
              /\ rows[k].components = SemicolonChain(c, Len(c))
              /\ rows[k].count = Cardinality(Calls[k].pmids)

\* C8 as stated: the rows of the counts report are the generator's output
\* sequence: the k-th row holds the k-th query, its components joined by
\* "; " and the size of the set returned for it.
C8_AsStated == counts_csv.written => RowsFollowGenerator

\* C8 (amended): the same, in runs whose generated query strings are
\* pairwise different.
C8_RowsFollowDistinctQueries ==
  (counts_csv.written /\ DistinctQueries) => RowsFollowGenerator

\* the counts of six pairwise different queries are written, one query
\* having failed and one having returned PMIDs
C8_Witness ==
  /\ counts_csv.written
  /\ DistinctQueries
  /\ Len(all_combos) = 6
  /\ \E j, k \in 1..6 : ~Calls[j].ok /\ counts_csv.rows[k].count > 0

\* C6: for n store keys the overlap report has one row per position pair
\* (a, b) with a < b, in lexicographic order of (a, b): n(n-1)/2 rows, none
\* pairing a query with itself, no unordered pair twice or reversed, and
\* no row for zero or one key.
C6_OverlapPairs ==
  overlap_csv.written =>
    LET n == Len(results)
        rows == overlap_csv.rows
        place(a, b) == (a - 1) * n - ((a * (a - 1)) \div 2) + (b - a)
    IN /\ 2 * Len(rows) = n * (n - 1)
       /\ \A a, b \in 1..n :
             a < b => /\ rows[place(a, b)].term1 = results[a].term
                      /\ rows[place(a, b)].term2 = results[b].term
       /\ \A k \in 1..Len(rows) : rows[k].term1 # rows[k].term2
       /\ \A j, k \in 1..Len(rows) :
             j # k => {rows[j].term1, rows[j].term2}
                        # {rows[k].term1, rows[k].term2}

\* the overlap report of a store of six queries is written
C6_Witness ==
  /\ overlap_csv.written
  /\ Len(results) = 6
  /\ Len(overlap_csv.rows) = 15

DigitValue(c) ==
  CASE c = "0" -> 0 [] c = "1" -> 1 [] c = "2" -> 2 [] c = "3" -> 3
    [] c = "4" -> 4 [] c = "5" -> 5 [] c = "6" -> 6 [] c = "7" -> 7
    [] c = "8" -> 8 [] c = "9" -> 9

RECURSIVE NatOf(_)
NatOf(s) ==
  IF Len(s) = 0 THEN 0
  ELSE NatOf(SubSeq(s, 1, Len(s) - 1)) * 10 + DigitValue(s[Len(s)])

DigitChars == {"0", "1", "2", "3", "4", "5", "6", "7", "8", "9"}

\* text of the form d...d.d
OneDecimal(s) ==
  /\ Len(s) >= 3
  /\ s[Len(s) - 1] = "."
  /\ \A k \in 1..Len(s) : k # Len(s) - 1 => s[k] \in DigitChars

\* the value of such a text, in tenths
TenthsOf(s) == NatOf(SubSeq(s, 1, Len(s) - 2)) * 10 + DigitValue(s[Len(s)])

\* C7: an overlap row holds shared = |S1 n S2|, union = |S1 u S2| and the
\* Jaccard percentage 100 * shared / union to one decimal, 0.0 for an empty
\* union; so it lies in 0..100, is 100.0 for equal non-empty sets and 0.0
\* for disjoint or empty ones, and is the same for (S2, S1);
\* {1,2,3} and {2,3,4} give 2, 4 and 50.0.
C7_Jaccard ==
  overlap_csv.written =>
    LET S1 == results[1].pmids
        S2 == results[2].pmids
        row == overlap_csv.rows[1]
        swapped == overlapRow(results[2].term, results[1].term, S2, S1)
        t == TenthsOf(row.jaccard)
        off == t * row.union - 1000 * row.shared
    IN /\ Len(overlap_csv.rows) = 1
       /\ row.shared = Cardinality(S1 \cap S2)
       /\ row.union = Cardinality(S1 \cup S2)
       /\ OneDecimal(row.jaccard)
       /\ row.union > 0 => (2 * off <= row.union /\ 2 * (0 - off) <= row.union)
       /\ row.union = 0 => row.jaccard = <<"0", ".", "0">>
       /\ t >= 0 /\ t <= 1000
       /\ (S1 = S2 /\ S1 # {}) => row.jaccard = <<"1", "0", "0", ".", "0">>
       /\ S1 \cap S2 = {} => row.jaccard = <<"0", ".", "0">>
       /\ swapped.shared = row.shared
       /\ swapped.union = row.union
       /\ swapped.jaccard = row.jaccard
       /\ (S1 = {1, 2, 3} /\ S2 = {2, 3, 4}) =>
             /\ row.shared = 2
             /\ row.union = 4
             /\ row.jaccard = <<"5", "0", ".", "0">>

\* the row for {1,2,3} and {2,3,4} is written
C7_Witness ==
  /\ overlap_csv.written
  /\ results[1].pmids = {1, 2, 3}
  /\ results[2].pmids = {2, 3, 4}
  /\ Len(overlap_csv.rows) = 1

====
